---- MODULE Spec2Model ----
(***************************************************************************)
(* Research orchestration pipeline of Agent-J:                             *)
(*   ResearchCoordinator (server/_core/agents/researchCoordinator.ts),     *)
(*   BaseAgent.execute   (baseAgent.ts),                                   *)
(*   OrchestratorAgent   (orchestratorAgent.ts).                           *)
(* One step of the model is the code that runs between two await points    *)
(* at which an external event (a model answer, a tool result) is awaited.  *)
(***************************************************************************)
EXTENDS Integers, Sequences, FiniteSets, TLC

\* ---------------------------------------------------------------- bounds
\* lines of the decomposition answer that parse as a task
MaxLines == 1
\* length of the task list handed to executeTasks when it is run on its own
MaxTasks == 6
\* length of the findings list handed to verifyFindings when run on its own
MaxFindings == 6
\* number of task lines of the decomposition answer in the runs where every
\* worker answers
MaxScenarioLines == 6
\* updates of one memory record when the MemoryManager is run on its own, and
\* the lines of the text of one update
MaxAppends == 2
MaxTextLines == 2
\* length of the list handed to verifyFreshness, and of the lists the
\* coordinator's state reaches when its sharing is looked at on its own
MaxArtifacts == 2
\* rows inserted into the chat tables, all tables together
MaxRows == 3
\* startResearch calls made on one mounted hook
MaxCalls == 2

\* ------------------------------------------------------ program constants
batchSize == 3
TaskLimit == 5
AnalyzeLimit == 5
VerifyLimit == 5

\* ------------------------------------------------------------ environment
\* what one invokeLLM call can do: a text answer, an empty answer, an answer
\* with tool calls, a response without a message, a provider error
Outcomes == {"text", "empty", "tools", "nomsg", "error"}
\* the outcomes drawn for the search tasks of a batch: a response without a
\* message differs from a provider error in the text of task.error alone
SearchOutcomes == Outcomes \ {"nomsg"}
\* message of a provider error
ProviderError == "provider unavailable"
NoResponse == "No response from LLM"
\* what reading .split of a failed task's result / of a tool-result array throws
TypeErrorUndefined == "Cannot read properties of undefined (reading 'split')"
TypeErrorNotFunction == "response.split is not a function"

Undefined == "undefined"
ToolResults == "toolResults"
NoTask == [id |-> 0, agentRole |-> "none", status |-> "none",
           result |-> Undefined, error |-> Undefined]

Min(a, b) == IF a < b THEN a ELSE b

\* ----------------------------------------------------------- BaseAgent
NewTask(id, role) ==
    [id |-> id, agentRole |-> role, status |-> "idle",
     result |-> Undefined, error |-> Undefined]

\* execute, up to the await of invokeLLM
ExecuteStart(task) == [task EXCEPT !.status = "thinking"]

\* execute, from the return of invokeLLM to the next await or to the return
ExecuteLLM(task, out) ==
    CASE out = "error" -> [task EXCEPT !.status = "failed", !.error = ProviderError]
      [] out = "nomsg" -> [task EXCEPT !.status = "failed", !.error = NoResponse]
      [] out = "tools" -> [task EXCEPT !.status = "executing"]
      [] out = "text"  -> [task EXCEPT !.status = "completed", !.result = "text"]
      [] out = "empty" -> [task EXCEPT !.status = "completed", !.result = ""]

\* execute, from the return of handleToolCalls to the return
ExecuteTools(task) ==
    [task EXCEPT !.status = "completed", !.result = ToolResults]

Terminal_CompletedOnly(task) == task.status = "completed"
\* execute has returned the task
Terminal(task) == task.status \in {"completed", "failed"}

\* JavaScript truthiness of task.result
Truthy(r) == r \notin {Undefined, ""}
\* String(result)
StringOf(r) == IF r = ToolResults THEN "[object Object]" ELSE r
IsString_Lenient(r) == r # ToolResults
\* response.split exists only on strings
IsString(r) == r \notin {Undefined, ToolResults}
SplitError(r) == IF r = Undefined THEN TypeErrorUndefined ELSE TypeErrorNotFunction

\* ------------------------------------------------------------------ state
VARIABLES
    pc,               \* where the coordinator's flow of control stands
    currentPhase,     \* state.currentPhase
    progressPercentage, \* state.progressPercentage
    call,             \* the task of the worker call the flow awaits (sequential calls)
    tasks,            \* the task list of executeTasks
    i,                \* executeTasks: loop variable i
    inflight,         \* indices of the batch's tasks whose executeTask has not returned
    batches,          \* the slices [lo, hi] dispatched so far
    batchResults,     \* index -> what executeTask returned for that task
    searchResults,    \* executeTasks: findings
    findings,         \* state.findings
    citations,        \* state.citations
    k,                \* analyzeFindings / verifyFindings: position in the loop
    analyzed,         \* analyzeFindings: analyzed
    verifyInput,      \* verifyFindings: parameter findings
    verified,         \* verifyFindings: verified
    verifiedFindings, \* what verifyFindings returned
    result,           \* what executeResearch returned
    raised,           \* the message of the error executeResearch threw
    checksAllFailed,  \* history: every fact-check call of verifyFindings so far ended failed
    nextId,           \* source of nanoid()
    memory,           \* MemoryManager: the session's record in this.memories
    memCall,          \* history: the last call on the MemoryManager and the record it found
    freshness,        \* verifyFreshness: its arguments, the clock and what it returned
    chat,             \* the tables behind the chat router, and what its last call returned
    orch,             \* OrchestratorAgent.state: the coordinator's object or a copy of its own
    hook              \* useDeepResearch: the research state, the calls and their timers

vars == <<pc, currentPhase, progressPercentage, call, tasks, i, inflight, batches,
          batchResults, searchResults, findings, citations, k, analyzed,
          verifyInput, verified, verifiedFindings, result, raised, checksAllFailed, nextId,
          memory, memCall, freshness, chat, orch, hook>>

NoResult == [report |-> "none", findings |-> <<>>, citations |-> <<>>, returned |-> FALSE]
NoError == "none"


\* ---------------------------------------------------------------- memory
\* MemoryManager. A string is modelled by the sequence of its lines, which is
\* what split("\n") returns for it: "" is one empty line, and `${a}\n${b}` is
\* the lines of a followed by the lines of b. A line is its length in
\* characters and its text.
maxShortTermTokens == 4000
maxLongTermTokens == 16000

Line(len, text) == [len |-> len, text |-> text]
EmptyLine == Line(0, "")
EmptyString == <<EmptyLine>>
\* "[... memory compressed ...]", the line compressMemory appends after "\n"
Marker == Line(27, "[... memory compressed ...]")

\* the sum of the lengths of lines lo..hi, by halves
RECURSIVE SumLen(_, _, _)
SumLen(lines, lo, hi) ==
    IF lo > hi THEN 0
    ELSE IF lo = hi THEN lines[lo].len
    ELSE LET mid == (lo + hi) \div 2
         IN  SumLen(lines, lo, mid) + SumLen(lines, mid + 1, hi)

\* text.length: the characters of the lines and the "\n" between them
StrLen(lines) == SumLen(lines, 1, Len(lines)) + Len(lines) - 1

\* estimateTokens: Math.ceil(text.length / 4)
EstimateTokens(lines) == (StrLen(lines) + 3) \div 4

\* compressMemory before its loop: let compressed = ""; let tokens = 0
LoopStart == [compressed |-> <<>>, tokens |-> 0, broke |-> FALSE]

KeepLine_Skipping(acc, line, maxTokens) ==
    LET lineTokens == EstimateTokens(<<line>>)
    IN  IF acc.tokens + lineTokens <= maxTokens
        THEN [acc EXCEPT !.compressed = Append(@, line), !.tokens = @ + lineTokens]
        ELSE acc
\* compressMemory: the body of its loop for one line; compressed holds the
\* lines taken so far, each of which the code follows by "\n"
KeepLine(acc, line, maxTokens) ==
    LET lineTokens == EstimateTokens(<<line>>)
    IN  IF acc.tokens + lineTokens <= maxTokens
        THEN [acc EXCEPT !.compressed = Append(@, line), !.tokens = @ + lineTokens]
        ELSE [acc EXCEPT !.broke = TRUE]

\* compressMemory: the loop over lines lo..hi in order, started from acc; it
\* is run by halves, the second half from where the first half ended, and
\* does nothing more after the break
RECURSIVE Kept(_, _, _, _, _)
Kept(lines, lo, hi, acc, maxTokens) ==
    IF acc.broke \/ lo > hi THEN acc
    ELSE IF lo = hi THEN KeepLine(acc, lines[lo], maxTokens)
    ELSE LET mid == (lo + hi) \div 2
         IN  Kept(lines, mid + 1, hi, Kept(lines, lo, mid, acc, maxTokens), maxTokens)

\* compressMemory: every kept line is followed by "\n", and the marker is
\* appended after another "\n" when the result is shorter than the input
CompressMemory(mem, maxTokens) ==
    LET compressed == Kept(mem, 1, Len(mem), LoopStart, maxTokens).compressed \o <<EmptyLine>>
    IN  IF StrLen(compressed) < StrLen(mem)
        THEN compressed \o <<Marker>>
        ELSE compressed

UpdateBuffer_Eager(buffer, text, maxTokens) ==
    LET combined == buffer \o text
    IN  IF EstimateTokens(combined) >= maxTokens
        THEN CompressMemory(combined, maxTokens)
        ELSE combined
\* updateShortTermMemory / updateLongTermMemory: the new value of the buffer
UpdateBuffer(buffer, text, maxTokens) ==
    LET combined == buffer \o text
    IN  IF EstimateTokens(combined) > maxTokens
        THEN CompressMemory(combined, maxTokens)
        ELSE combined

\* a content longer than the 200 characters updateLongTermMemory keeps of it
LongText == "long text"
LongTextChars == 5000
ContentChars(content) == IF content = LongText THEN LongTextChars ELSE Len(content)

\* updateLongTermMemory: `[${f.type}] ${f.content.substring(0, 200)}...`
SummaryLine(f) ==
    Line(1 + Len(f.type) + 2 + Min(ContentChars(f.content), 200) + 3,
         "[" \o f.type \o "] " \o f.content \o "...")

\* updateLongTermMemory: findings.map(...).join("\n")
FindingsSummary(fs) ==
    IF fs = <<>> THEN EmptyString ELSE [p \in 1..Len(fs) |-> SummaryLine(fs[p])]

\* `Found ${searchResults.length} initial findings`
FoundNote(n) ==
    Line(Len("Found " \o ToString(n) \o " initial findings"),
         "Found " \o ToString(n) \o " initial findings")

NoMemory == [exists |-> FALSE, shortTermMemory |-> EmptyString, longTermMemory |-> EmptyString]

\* initializeMemory: memories.set(sessionId, <empty record>)
InitializeMemory(m) ==
    [exists |-> TRUE, shortTermMemory |-> EmptyString, longTermMemory |-> EmptyString]

\* clearMemory: memories.delete(sessionId)
ClearMemory(m) == NoMemory

UpdateShortTermMemory(m, context) ==
    IF ~m.exists THEN m
    ELSE [m EXCEPT !.shortTermMemory = UpdateBuffer(@, context, maxShortTermTokens)]

UpdateLongTermMemory(m, fs) ==
    IF ~m.exists THEN m
    ELSE [m EXCEPT !.longTermMemory = UpdateBuffer(@, FindingsSummary(fs), maxLongTermTokens)]

\* the history of a call: its name, its argument as text, the record it found,
\* and the number of updates the record has had since it was created
MemCall(op, text, before, n) == [op |-> op, text |-> text, before |-> before, n |-> n]
NoMemCall == MemCall("none", EmptyString, NoMemory, 0)

\* verifyFreshness has not been called
NoFreshness == [now |-> 0, threshold |-> 0, artifacts |-> <<>>, stale |-> <<>>, returned |-> FALSE]


\* -------------------------------------------------- state outside the run
\* the chat tables: rows are identified by the id the insert gave them; a
\* message keeps the id of its session, an annotation that of its message
ChatTables(available) ==
    [available |-> available,
     sessions |-> {}, messages |-> {}, annotations |-> {},
     nextSession |-> 1, nextMessage |-> 1, nextAnnotation |-> 1,
     deleted |-> [sessions |-> {}, messages |-> {}, annotations |-> {}],
     error |-> "none"]
NoChat == ChatTables(FALSE)

\* new OrchestratorAgent(this.state): the orchestrator holds the object of
\* the coordinator
SameState ==
    [same |-> TRUE, currentPhase |-> "planning", progressPercentage |-> 0,
     sameFindings |-> TRUE, findings |-> <<>>,
     sameCitations |-> TRUE, citations |-> <<>>]

\* useState: the initial research state; no call made, no timer set
NoHook ==
    [status |-> "idle", progress |-> 0, result |-> "null", error |-> "null",
     calls |-> <<>>, timers |-> {}]

\* ------------------------------------------------------------- artifacts
Artifact(id, taskId, type, content, source, verification) ==
    [id |-> id, taskId |-> taskId, type |-> type, content |-> content,
     sourceArtifactId |-> source, verificationResult |-> verification]

ExecuteTaskFindings_Unchecked(res, id) ==
    <<Artifact(id, res.id, "finding", StringOf(res.result), 0, Undefined)>>
\* executeTask: the findings it returns for the task execute returned, with
\* the artifact taking its id from nanoid()
ExecuteTaskFindings(res, id) ==
    IF Truthy(res.result)
    THEN <<Artifact(id, res.id, "finding", StringOf(res.result), 0, Undefined)>>
    ELSE <<>>

\* executeTask: the citations it pushes onto state.citations
ExecuteTaskCitations(arts, id) ==
    IF arts # <<>>
    THEN <<[id |-> id, artifactId |-> arts[1].id, source |-> "Research Task"]>>
    ELSE <<>>

AnalyzePush_Unchecked(finding, res, id) ==
    <<Artifact(id, res.id, "analysis", StringOf(res.result), finding.id, Undefined)>>
\* analyzeFindings: what one pass of the loop pushes onto analyzed
AnalyzePush(finding, res, id) ==
    IF Truthy(res.result)
    THEN <<Artifact(id, res.id, "analysis", StringOf(res.result), finding.id, Undefined)>>
    ELSE <<>>

VerifyPush_SameId(finding, res, id, threw) ==
    IF threw THEN <<finding>>
    ELSE IF Truthy(res.result)
    THEN <<[finding EXCEPT !.type = "verified", !.verificationResult = res.result]>>
    ELSE <<>>
\* verifyFindings: what one pass of the loop pushes onto verified; threw is the
\* catch branch, taken when the awaited execute rejects
VerifyPush(finding, res, id, threw) ==
    IF threw THEN <<finding>>
    ELSE IF Truthy(res.result)
    THEN <<[finding EXCEPT !.id = id, !.type = "verified",
                           !.verificationResult = res.result]>>
    ELSE <<>>

\* BaseAgent.execute catches every error and returns the task, so the promise
\* the coordinator awaits never rejects
ExecuteRejects(res) == FALSE

VerifyOutput_NoFallback(ver, input) == ver
\* verifyFindings: return verified.length > 0 ? verified : findings
VerifyOutput(ver, input) == IF Len(ver) > 0 THEN ver ELSE input

\* slice(0, n)
Slice(s, n) == SubSeq(s, 1, Min(n, Len(s)))

\* ------------------------------------------------------------ executeTasks
BatchOf_Wide(ts, lo) == (lo + 1) .. Min(lo + batchSize + 1, Len(ts))
\* tasks.slice(i, i + batchSize), as the (1-based) positions it covers
BatchOf(ts, lo) == (lo + 1) .. Min(lo + batchSize, Len(ts))

RECURSIVE Flat(_, _, _)
\* batchResults.flat(): Promise.all keeps the order of the batch
Flat(f, lo, hi) == IF lo > hi THEN <<>> ELSE f[lo] \o Flat(f, lo + 1, hi)

\* batch.map((task) => this.executeTask(task)): every task of the slice runs
\* up to its await of invokeLLM before Promise.all is awaited
Dispatch(ts, lo) ==
    /\ tasks' = [j \in 1..Len(ts) |->
                    IF j \in BatchOf(ts, lo) THEN ExecuteStart(ts[j]) ELSE ts[j]]
    /\ inflight' = BatchOf(ts, lo)
    /\ batches' = IF BatchOf(ts, lo) = {} THEN batches
                  ELSE Append(batches, <<lo + 1, Min(lo + batchSize, Len(ts))>>)
    /\ batchResults' = [j \in BatchOf(ts, lo) |-> <<>>]

\* await Promise.all(...) resolves once every executeTask of the batch returned
AllSettled_ButOne(pending) == Cardinality(pending) <= 1
AllSettled(pending) == pending = {}

\* a search task's invokeLLM returns; unless tool calls follow, execute returns
\* and executeTask builds the artifact and the citation
SearchLLMFrom(j, outcomes) ==
    /\ pc = "search" /\ j \in inflight /\ tasks[j].status = "thinking"
    /\ \E o \in outcomes :
         LET res == ExecuteLLM(tasks[j], o)
             arts == ExecuteTaskFindings(res, nextId)
         IN /\ tasks' = [tasks EXCEPT ![j] = res]
            /\ IF Terminal(res)
               THEN /\ inflight' = inflight \ {j}
                    /\ batchResults' = [batchResults EXCEPT ![j] = arts]
                    /\ citations' = citations \o ExecuteTaskCitations(arts, nextId + 1)
                    /\ nextId' = nextId + 2 * Len(arts)
               ELSE UNCHANGED <<inflight, batchResults, citations, nextId>>
    /\ UNCHANGED <<chat, orch, hook, memory, memCall, freshness, pc, currentPhase, progressPercentage, call, i, batches,
                   searchResults, findings, k, analyzed, verifyInput, verified,
                   verifiedFindings, result, raised, checksAllFailed>>

SearchLLM(j) == SearchLLMFrom(j, SearchOutcomes)

\* a search task's handleToolCalls returns
SearchTools(j) ==
    /\ pc = "search" /\ j \in inflight /\ tasks[j].status = "executing"
    /\ LET res == ExecuteTools(tasks[j])
           arts == ExecuteTaskFindings(res, nextId)
       IN /\ tasks' = [tasks EXCEPT ![j] = res]
          /\ inflight' = inflight \ {j}
          /\ batchResults' = [batchResults EXCEPT ![j] = arts]
          /\ citations' = citations \o ExecuteTaskCitations(arts, nextId + 1)
          /\ nextId' = nextId + 2 * Len(arts)
    /\ UNCHANGED <<chat, orch, hook, memory, memCall, freshness, pc, currentPhase, progressPercentage, call, i, batches,
                   searchResults, findings, k, analyzed, verifyInput, verified,
                   verifiedFindings, result, raised, checksAllFailed>>

\* Promise.all of the batch resolves: findings.push(...batchResults.flat()),
\* i += batchSize, and the next slice, if any, is dispatched
BatchJoin ==
    /\ pc = "search" /\ i < Len(tasks) /\ AllSettled(inflight)
    /\ searchResults' = searchResults \o Flat(batchResults, i + 1, Min(i + batchSize, Len(tasks)))
    /\ i' = i + batchSize
    /\ Dispatch(tasks, i + batchSize)
    /\ UNCHANGED <<chat, orch, hook, memory, memCall, freshness, pc, currentPhase, progressPercentage, call, findings, citations,
                   k, analyzed, verifyInput, verified, verifiedFindings, result,
                   raised, checksAllFailed, nextId>>


\* ------------------------------------------------- the sequential worker calls
\* the task of pass p (0-based) of a loop over list, already run up to its
\* await of invokeLLM; NoTask when the loop is over
LoopCall(list, p, role, id) ==
    IF p < Len(list) THEN ExecuteStart(NewTask(id, role)) ELSE NoTask
LoopIds(list, p) == IF p < Len(list) THEN 1 ELSE 0

\* invokeLLM of the awaited orchestrator, extractor or fact-checker call
\* returns: execute returns the task, or goes on to handleToolCalls
CallLLMFrom(outcomes) ==
    /\ pc \in {"plan", "decompose", "analyze", "verify", "synthesize"}
    /\ call.status = "thinking"
    /\ \E o \in outcomes : call' = ExecuteLLM(call, o)
    /\ UNCHANGED <<chat, orch, hook, memory, memCall, freshness, pc, currentPhase, progressPercentage, tasks, i, inflight, batches,
                   batchResults, searchResults, findings, citations, k, analyzed,
                   verifyInput, verified, verifiedFindings, result, raised,
                   checksAllFailed, nextId>>

CallLLM == CallLLMFrom(Outcomes)

\* handleToolCalls of the awaited call returns, and execute returns the task
CallTools ==
    /\ pc \in {"plan", "decompose", "analyze", "verify", "synthesize"}
    /\ call.status = "executing"
    /\ call' = ExecuteTools(call)
    /\ UNCHANGED <<chat, orch, hook, memory, memCall, freshness, pc, currentPhase, progressPercentage, tasks, i, inflight, batches,
                   batchResults, searchResults, findings, citations, k, analyzed,
                   verifyInput, verified, verifiedFindings, result, raised,
                   checksAllFailed, nextId>>

PhaseProgress_Low(phase) ==
    CASE phase = "planning" -> 10
      [] phase = "searching" -> 30
      [] phase = "analyzing" -> 20
      [] phase = "synthesizing" -> 80
      [] phase = "finalizing" -> 90
\* progressPercentage as executeResearch sets it on entering a phase
PhaseProgress(phase) ==
    CASE phase = "planning" -> 10
      [] phase = "searching" -> 30
      [] phase = "analyzing" -> 60
      [] phase = "synthesizing" -> 80
      [] phase = "finalizing" -> 90

\* progressPercentage as executeResearch sets it before it returns
FinalProgress == 100

\* executeResearch up to the await inside planResearch
StartResearch ==
    /\ pc = "start"
    /\ currentPhase' = "planning" /\ progressPercentage' = PhaseProgress("planning")
    /\ call' = ExecuteStart(NewTask(nextId, "orchestrator"))
    /\ nextId' = nextId + 1
    /\ pc' = "plan"
    /\ UNCHANGED <<chat, orch, hook, memory, memCall, freshness, tasks, i, inflight, batches, batchResults, searchResults, findings,
                   citations, k, analyzed, verifyInput, verified, verifiedFindings,
                   result, raised, checksAllFailed>>

\* the catch of executeResearch rethrows the error; the state keeps the phase
Raise(msg) ==
    /\ pc' = "raised" /\ raised' = msg
    /\ UNCHANGED <<chat, orch, hook, memory, memCall, freshness, currentPhase, progressPercentage, call, tasks, i, inflight, batches,
                   batchResults, searchResults, findings, citations, k, analyzed,
                   verifyInput, verified, verifiedFindings, result, checksAllFailed,
                   nextId>>

\* planResearch after its execute returned: extractObjectives calls
\* response.split on result.result; then decomposeTasks up to its await
PlanResearch ==
    /\ pc = "plan" /\ Terminal(call)
    /\ IF IsString(call.result)
       THEN /\ call' = ExecuteStart(NewTask(nextId + 1, "orchestrator"))
            /\ nextId' = nextId + 2
            /\ pc' = "decompose"
            /\ UNCHANGED <<chat, orch, hook, memory, memCall, freshness, currentPhase, progressPercentage, tasks, i, inflight,
                           batches, batchResults, searchResults, findings,
                           citations, k, analyzed, verifyInput, verified,
                           verifiedFindings, result, raised, checksAllFailed>>
       ELSE Raise(SplitError(call.result))

\* parseTasksFromResponse of an answer with n lines that match: one searcher
\* task per line, tasks.slice(0, 5)
ParseTasks(n, id) == Slice([j \in 1..n |-> NewTask(id + j - 1, "searcher")], TaskLimit)

\* decomposeTasks after its execute returned, then phase 2 up to the await of
\* the first batch
DecomposeTasksUpTo(maxLines) ==
    /\ pc = "decompose" /\ Terminal(call)
    /\ IF IsString(call.result)
       THEN \E n \in (IF call.result = "" THEN {0} ELSE 0..maxLines) :
            /\ currentPhase' = "searching"
            /\ progressPercentage' = PhaseProgress("searching")
            /\ i' = 0 /\ searchResults' = <<>>
            /\ Dispatch(ParseTasks(n, nextId), 0)
            /\ nextId' = nextId + n
            /\ pc' = "search"
            /\ UNCHANGED <<chat, orch, hook, memory, memCall, freshness, call, findings, citations, k, analyzed, verifyInput,
                           verified, verifiedFindings, result, raised, checksAllFailed>>
       ELSE Raise(SplitError(call.result))

DecomposeTasks == DecomposeTasksUpTo(MaxLines)

\* analyzeFindings(searchResults): findings.slice(0, 5)
AnalyzeInput == Slice(searchResults, AnalyzeLimit)
VerifyLoop_All == verifyInput
\* verifyFindings(findings): findings.slice(0, 5)
VerifyLoop == Slice(verifyInput, VerifyLimit)

\* executeTasks returns; state.findings.push(...searchResults); phase 3 up to
\* the await of the first extraction
SearchDone ==
    /\ pc = "search" /\ i >= Len(tasks)
    /\ findings' = findings \o searchResults
    /\ currentPhase' = "analyzing"
    /\ progressPercentage' = PhaseProgress("analyzing")
    /\ k' = 0 /\ analyzed' = <<>>
    /\ call' = LoopCall(AnalyzeInput, 0, "extractor", nextId)
    /\ nextId' = nextId + LoopIds(AnalyzeInput, 0)
    /\ memory' = UpdateShortTermMemory(memory, <<FoundNote(Len(searchResults))>>)
    /\ memCall' = MemCall("updateShortTermMemory", <<FoundNote(Len(searchResults))>>, memory, memCall.n + 1)
    /\ pc' = "analyze"
    /\ UNCHANGED <<chat, orch, hook, freshness, tasks, i, inflight, batches, batchResults, searchResults, citations,
                   verifyInput, verified, verifiedFindings, result, raised,
                   checksAllFailed>>

\* one pass of the loop of analyzeFindings, from the return of execute to the
\* await of the next pass
AnalyzeStep ==
    /\ pc = "analyze" /\ k < Len(AnalyzeInput) /\ Terminal(call)
    /\ LET push == AnalyzePush(AnalyzeInput[k + 1], call, nextId)
           id == nextId + Len(push)
       IN /\ analyzed' = analyzed \o push
          /\ k' = k + 1
          /\ call' = LoopCall(AnalyzeInput, k + 1, "extractor", id)
          /\ nextId' = id + LoopIds(AnalyzeInput, k + 1)
    /\ UNCHANGED <<chat, orch, hook, memory, memCall, freshness, pc, currentPhase, progressPercentage, tasks, i, inflight, batches,
                   batchResults, searchResults, findings, citations, verifyInput,
                   verified, verifiedFindings, result, raised, checksAllFailed>>

\* analyzeFindings returns; state.findings.push(...analyzedFindings); phase 4
\* up to the await of the first fact-check
AnalyzeDone ==
    /\ pc = "analyze" /\ k >= Len(AnalyzeInput)
    /\ findings' = findings \o analyzed
    /\ currentPhase' = "synthesizing"
    /\ progressPercentage' = PhaseProgress("synthesizing")
    /\ verifyInput' = findings' /\ verified' = <<>> /\ k' = 0
    /\ call' = LoopCall(Slice(findings', VerifyLimit), 0, "fact_checker", nextId)
    /\ nextId' = nextId + LoopIds(Slice(findings', VerifyLimit), 0)
    /\ pc' = "verify"
    /\ UNCHANGED <<chat, orch, hook, memory, memCall, freshness, tasks, i, inflight, batches, batchResults, searchResults, citations,
                   analyzed, verifiedFindings, result, raised, checksAllFailed>>

\* one pass of the loop of verifyFindings, from the return of execute to the
\* await of the next pass
VerifyStep ==
    /\ pc = "verify" /\ k < Len(VerifyLoop) /\ Terminal(call)
    /\ LET push == VerifyPush(VerifyLoop[k + 1], call, nextId, ExecuteRejects(call))
           id == IF ExecuteRejects(call) THEN nextId ELSE nextId + Len(push)
       IN /\ verified' = verified \o push
          /\ k' = k + 1
          /\ call' = LoopCall(VerifyLoop, k + 1, "fact_checker", id)
          /\ nextId' = id + LoopIds(VerifyLoop, k + 1)
    /\ checksAllFailed' = (checksAllFailed /\ call.status = "failed")
    /\ UNCHANGED <<chat, orch, hook, memory, memCall, freshness, pc, currentPhase, progressPercentage, tasks, i, inflight, batches,
                   batchResults, searchResults, findings, citations, analyzed,
                   verifyInput, verifiedFindings, result, raised>>

\* verifyFindings returns; phase 5 up to the await inside synthesizeFindings
VerifyDone ==
    /\ pc = "verify" /\ k >= Len(VerifyLoop)
    /\ verifiedFindings' = VerifyOutput(verified, verifyInput)
    /\ currentPhase' = "finalizing"
    /\ progressPercentage' = PhaseProgress("finalizing")
    /\ call' = ExecuteStart(NewTask(nextId, "orchestrator"))
    /\ nextId' = nextId + 1
    /\ pc' = "synthesize"
    /\ UNCHANGED <<chat, orch, hook, memory, memCall, freshness, tasks, i, inflight, batches, batchResults, searchResults, findings,
                   citations, k, analyzed, verifyInput, verified, result, raised,
                   checksAllFailed>>

ResearchResult_FirstCitation(report, fs, cs) ==
    [report |-> report, findings |-> fs, citations |-> Slice(cs, 1), returned |-> TRUE]
\* the ResearchResult executeResearch returns
ResearchResult(report, fs, cs) ==
    [report |-> report, findings |-> fs, citations |-> cs, returned |-> TRUE]

\* synthesizeFindings returns result.result as it is; the long-term memory is
\* updated, progress set to 100 and the ResearchResult returned
SynthesizeFindings ==
    /\ pc = "synthesize" /\ Terminal(call)
    /\ result' = ResearchResult(call.result, verifiedFindings, citations)
    /\ progressPercentage' = FinalProgress
    /\ memory' = UpdateLongTermMemory(memory, verifiedFindings)
    /\ memCall' = MemCall("updateLongTermMemory", FindingsSummary(verifiedFindings), memory, memCall.n + 1)
    /\ pc' = "returned"
    /\ UNCHANGED <<chat, orch, hook, freshness, currentPhase, call, tasks, i, inflight, batches, batchResults,
                   searchResults, findings, citations, k, analyzed, verifyInput,
                   verified, verifiedFindings, raised, checksAllFailed, nextId>>

\* --------------------------------------------------------- specification
\* the state the constructor of ResearchCoordinator leaves
Init ==
    /\ pc = "start"
    /\ currentPhase = "planning" /\ progressPercentage = 0
    /\ call = NoTask
    /\ tasks = <<>> /\ i = 0 /\ inflight = {} /\ batches = <<>>
    /\ batchResults = <<>> /\ searchResults = <<>>
    /\ findings = <<>> /\ citations = <<>>
    /\ k = 0 /\ analyzed = <<>>
    /\ verifyInput = <<>> /\ verified = <<>> /\ verifiedFindings = <<>>
    /\ result = NoResult /\ raised = NoError /\ checksAllFailed = TRUE
    /\ chat = NoChat /\ orch = SameState /\ hook = NoHook
    /\ memory = InitializeMemory(NoMemory) /\ memCall = NoMemCall /\ freshness = NoFreshness
    /\ nextId = 1

Next ==
    \/ StartResearch
    \/ CallLLM
    \/ CallTools
    \/ PlanResearch
    \/ DecomposeTasks
    \/ \E j \in 1..Len(tasks) : SearchLLM(j)
    \/ \E j \in 1..Len(tasks) : SearchTools(j)
    \/ BatchJoin
    \/ SearchDone
    \/ AnalyzeStep
    \/ AnalyzeDone
    \/ VerifyStep
    \/ VerifyDone
    \/ SynthesizeFindings

Spec == Init /\ [][Next]_vars


\* ------------------------------------------------ executeTasks on its own
\* executeTasks returns its findings
ExecuteTasksReturn ==
    /\ pc = "search" /\ i >= Len(tasks)
    /\ pc' = "tasksReturned"
    /\ UNCHANGED <<chat, orch, hook, memory, memCall, freshness, currentPhase, progressPercentage, call, tasks, i, inflight, batches,
                   batchResults, searchResults, findings, citations, k, analyzed,
                   verifyInput, verified, verifiedFindings, result, raised,
                   checksAllFailed, nextId>>

\* executeTasks called in phase 2 with a list of 0..MaxTasks idle searcher
\* tasks, up to the await of the first batch
InitTasks ==
    /\ pc = "search"
    /\ currentPhase = "searching" /\ progressPercentage = 30
    /\ call = NoTask
    /\ \E n \in 0..MaxTasks :
         LET ts == [j \in 1..n |-> NewTask(j, "searcher")]
         IN /\ tasks = [j \in 1..n |-> IF j \in BatchOf(ts, 0) THEN ExecuteStart(ts[j]) ELSE ts[j]]
            /\ inflight = BatchOf(ts, 0)
            /\ batches = IF n = 0 THEN <<>> ELSE <<<<1, Min(batchSize, n)>>>>
            /\ batchResults = [j \in BatchOf(ts, 0) |-> <<>>]
            /\ nextId = n + 1
    /\ i = 0 /\ searchResults = <<>>
    /\ findings = <<>> /\ citations = <<>>
    /\ k = 0 /\ analyzed = <<>>
    /\ verifyInput = <<>> /\ verified = <<>> /\ verifiedFindings = <<>>
    /\ result = NoResult /\ raised = NoError /\ checksAllFailed = TRUE
    /\ chat = NoChat /\ orch = SameState /\ hook = NoHook
    /\ memory = InitializeMemory(NoMemory) /\ memCall = NoMemCall /\ freshness = NoFreshness

NextTasks ==
    \/ \E j \in 1..Len(tasks) : SearchLLM(j)
    \/ \E j \in 1..Len(tasks) : SearchTools(j)
    \/ BatchJoin
    \/ ExecuteTasksReturn

SpecTasks == InitTasks /\ [][NextTasks]_vars


\* ---------------------------------------------- verifyFindings on its own
\* verifyFindings returns
VerifyFindingsReturn ==
    /\ pc = "verify" /\ k >= Len(VerifyLoop)
    /\ verifiedFindings' = VerifyOutput(verified, verifyInput)
    /\ pc' = "verifyReturned"
    /\ UNCHANGED <<chat, orch, hook, memory, memCall, freshness, currentPhase, progressPercentage, call, tasks, i, inflight, batches,
                   batchResults, searchResults, findings, citations, k, analyzed,
                   verifyInput, verified, result, raised, checksAllFailed, nextId>>

\* state.findings as phases 2 and 3 leave it: nf search findings followed by
\* na analysis artifacts of the first findings
FindingsList(nf, na) ==
    [p \in 1..(nf + na) |->
        IF p <= nf THEN Artifact(p, 100 + p, "finding", "text", 0, Undefined)
        ELSE Artifact(p, 200 + p, "analysis", "text", p - nf, Undefined)]

\* verifyFindings called in phase 4 with state.findings, up to the await of
\* the first fact-check
InitVerify ==
    /\ pc = "verify"
    /\ currentPhase = "synthesizing" /\ progressPercentage = 80
    /\ \E nf \in 0..MaxFindings : \E na \in 0..Min(nf, AnalyzeLimit) :
         /\ nf + na <= MaxFindings
         /\ findings = FindingsList(nf, na)
         /\ nextId = nf + na + 2
    /\ verifyInput = findings
    /\ call = LoopCall(VerifyLoop, 0, "fact_checker", nextId - 1)
    /\ tasks = <<>> /\ i = 0 /\ inflight = {} /\ batches = <<>>
    /\ batchResults = <<>> /\ searchResults = <<>>
    /\ citations = <<>>
    /\ k = 0 /\ analyzed = <<>>
    /\ verified = <<>> /\ verifiedFindings = <<>>
    /\ result = NoResult /\ raised = NoError /\ checksAllFailed = TRUE
    /\ chat = NoChat /\ orch = SameState /\ hook = NoHook
    /\ memory = InitializeMemory(NoMemory) /\ memCall = NoMemCall /\ freshness = NoFreshness

NextVerify ==
    \/ CallLLM
    \/ CallTools
    \/ VerifyStep
    \/ VerifyFindingsReturn

SpecVerify == InitVerify /\ [][NextVerify]_vars
\* ---------------------------------------------- analyzeFindings on its own
AnalyzeFindingsReturn ==
    /\ pc = "analyze" /\ k >= Len(AnalyzeInput)
    /\ pc' = "analyzeReturned"
    /\ UNCHANGED <<chat, orch, hook, memory, memCall, freshness, currentPhase, progressPercentage, call, tasks, i, inflight, batches,
                   batchResults, searchResults, findings, citations, k, analyzed,
                   verifyInput, verified, verifiedFindings, result, raised,
                   checksAllFailed, nextId>>

\* analyzeFindings called in phase 3 with the search findings, of which
\* there is at most one per task, up to the await of the first extraction
InitAnalyze ==
    /\ pc = "analyze"
    /\ currentPhase = "analyzing" /\ progressPercentage = 60
    /\ \E nf \in 0..Min(MaxFindings, TaskLimit) :
         /\ searchResults = FindingsList(nf, 0)
         /\ nextId = nf + 2
    /\ findings = searchResults
    /\ call = LoopCall(AnalyzeInput, 0, "extractor", nextId - 1)
    /\ tasks = <<>> /\ i = 0 /\ inflight = {} /\ batches = <<>>
    /\ batchResults = <<>>
    /\ citations = <<>>
    /\ k = 0 /\ analyzed = <<>>
    /\ verifyInput = <<>> /\ verified = <<>> /\ verifiedFindings = <<>>
    /\ result = NoResult /\ raised = NoError /\ checksAllFailed = TRUE
    /\ chat = NoChat /\ orch = SameState /\ hook = NoHook
    /\ memory = InitializeMemory(NoMemory) /\ memCall = NoMemCall /\ freshness = NoFreshness

NextAnalyze ==
    \/ CallLLM
    \/ CallTools
    \/ AnalyzeStep
    \/ AnalyzeFindingsReturn

SpecAnalyze == InitAnalyze /\ [][NextAnalyze]_vars


\* ------------------------------------------- runs where every worker answers
\* the answers with which a worker's execute ends completed with a result:
\* the model answers with text
Answered == {"text"}

\* the orchestrator's calls may end in any way, the calls of the searchers,
\* the extractor and the fact-checker are answered
CallLLMAnswered ==
    CallLLMFrom(IF call.agentRole = "orchestrator" THEN Outcomes ELSE Answered)

NextAnswered ==
    \/ StartResearch
    \/ CallLLMAnswered
    \/ CallTools
    \/ PlanResearch
    \/ DecomposeTasksUpTo(MaxScenarioLines)
    \/ \E j \in 1..Len(tasks) : SearchLLMFrom(j, Answered)
    \/ BatchJoin
    \/ SearchDone
    \/ AnalyzeStep
    \/ AnalyzeDone
    \/ VerifyStep
    \/ VerifyDone
    \/ SynthesizeFindings

SpecAnswered == Init /\ [][NextAnswered]_vars

\* ------------------------------------------------ MemoryManager on its own
\* the lengths of the lines of the texts appended: an empty line, a line of
\* half the short-term budget, a line one token under the short-term budget
LineLens == {0, 8000, 15996}

\* the n-th text appended: its lines are told apart by their text
ContextLine(len, n, p) ==
    IF len = 0 THEN EmptyLine ELSE Line(len, "context " \o ToString(n) \o "." \o ToString(p))

Contexts(n) ==
    UNION {{[p \in 1..m |-> ContextLine(lens[p], n, p)] : lens \in [1..m -> LineLens]}
           : m \in 1..MaxTextLines}

\* the lists of findings handed to updateLongTermMemory: none, one, or enough
\* long ones to exceed the long-term budget
ManyFindings == 320
SampleFindings(n, content) == [p \in 1..n |-> Artifact(p, p, "finding", content, 0, Undefined)]
FindingLists ==
    {SampleFindings(0, "text"), SampleFindings(1, "text"), SampleFindings(1, LongText),
     SampleFindings(ManyFindings, LongText)}

MemoryFrame ==
    UNCHANGED <<pc, currentPhase, progressPercentage, call, tasks, i, inflight, batches,
                batchResults, searchResults, findings, citations, k, analyzed,
                verifyInput, verified, verifiedFindings, result, raised,
                checksAllFailed, nextId, freshness, chat, orch, hook>>

InitializeMemoryCall ==
    /\ pc = "memory"
    /\ memory' = InitializeMemory(memory)
    /\ memCall' = MemCall("initializeMemory", EmptyString, memory, 0)
    /\ MemoryFrame

ClearMemoryCall ==
    /\ pc = "memory"
    /\ memory' = ClearMemory(memory)
    /\ memCall' = MemCall("clearMemory", EmptyString, memory, 0)
    /\ MemoryFrame

UpdateShortTermMemoryCall ==
    /\ pc = "memory" /\ memCall.n < MaxAppends
    /\ \E context \in Contexts(memCall.n + 1) :
         /\ memory' = UpdateShortTermMemory(memory, context)
         /\ memCall' = MemCall("updateShortTermMemory", context, memory, memCall.n + 1)
    /\ MemoryFrame

UpdateLongTermMemoryCall ==
    /\ pc = "memory" /\ memCall.n < MaxAppends
    /\ \E fs \in FindingLists :
         /\ memory' = UpdateLongTermMemory(memory, fs)
         /\ memCall' = MemCall("updateLongTermMemory", FindingsSummary(fs), memory, memCall.n + 1)
    /\ MemoryFrame

\* a MemoryManager after construction: this.memories is empty
InitMemory ==
    /\ pc = "memory"
    /\ currentPhase = "planning" /\ progressPercentage = 0
    /\ call = NoTask
    /\ tasks = <<>> /\ i = 0 /\ inflight = {} /\ batches = <<>>
    /\ batchResults = <<>> /\ searchResults = <<>>
    /\ findings = <<>> /\ citations = <<>>
    /\ k = 0 /\ analyzed = <<>>
    /\ verifyInput = <<>> /\ verified = <<>> /\ verifiedFindings = <<>>
    /\ result = NoResult /\ raised = NoError /\ checksAllFailed = TRUE
    /\ chat = NoChat /\ orch = SameState /\ hook = NoHook
    /\ nextId = 1
    /\ memory = NoMemory /\ memCall = NoMemCall /\ freshness = NoFreshness

NextMemory ==
    \/ InitializeMemoryCall
    \/ ClearMemoryCall
    \/ UpdateShortTermMemoryCall
    \/ UpdateLongTermMemoryCall

SpecMemory == InitMemory /\ [][NextMemory]_vars

\* ------------------------------------------------ verifyFreshness on its own
\* 1000 * 60 * 60: the milliseconds of an hour
HourMs == 1000 * 60 * 60

\* Math.abs
Abs(x) == IF x < 0 THEN 0 - x ELSE x

IsStale_Inclusive(now, retrievedAt, thresholdHours) ==
    Abs(now - retrievedAt) >= thresholdHours * HourMs
\* verifyFreshness: Math.abs(now - retrieved) / (1000 * 60 * 60) > threshold.
\* The quotient of the two integers exceeds the whole number of hours exactly
\* when the dividend exceeds that number of hours in milliseconds.
IsStale(now, retrievedAt, thresholdHours) ==
    Abs(now - retrievedAt) > thresholdHours * HourMs

\* verifyFreshness: the loop that pushes the stale artifacts in input order
StaleArtifacts(artifacts, now, thresholdHours) ==
    SelectSeq(artifacts, LAMBDA a : IsStale(now, a.retrievedAt, thresholdHours))

\* what new Date() returns inside verifyFreshness, in milliseconds
Clock == 100 * HourMs
\* the thresholds tried: none, one hour, the default of 24 hours
Thresholds == {0, 1, 24}
\* the retrieval times tried: at the threshold, one millisecond to either
\* side of it, now, and the same distances into the future
RetrievedTimes(now, h) ==
    {now - h * HourMs - 1, now - h * HourMs, now - h * HourMs + 1, now,
     now + 1, now + h * HourMs, now + h * HourMs + 1}

ArtifactLists(now, h) ==
    UNION {{[p \in 1..n |-> [id |-> p, retrievedAt |-> times[p]]]
              : times \in [1..n -> RetrievedTimes(now, h)]} : n \in 0..MaxArtifacts}

VerifyFreshness ==
    /\ pc = "freshness" /\ ~freshness.returned
    /\ freshness' = [freshness EXCEPT
                       !.stale = StaleArtifacts(freshness.artifacts, freshness.now,
                                                freshness.threshold),
                       !.returned = TRUE]
    /\ UNCHANGED <<pc, currentPhase, progressPercentage, call, tasks, i, inflight, batches,
                   batchResults, searchResults, findings, citations, k, analyzed,
                   verifyInput, verified, verifiedFindings, result, raised,
                   checksAllFailed, nextId, memory, memCall, chat, orch, hook>>

\* a call of verifyFreshness about to run
InitFreshness ==
    /\ pc = "freshness"
    /\ currentPhase = "planning" /\ progressPercentage = 0
    /\ call = NoTask
    /\ tasks = <<>> /\ i = 0 /\ inflight = {} /\ batches = <<>>
    /\ batchResults = <<>> /\ searchResults = <<>>
    /\ findings = <<>> /\ citations = <<>>
    /\ k = 0 /\ analyzed = <<>>
    /\ verifyInput = <<>> /\ verified = <<>> /\ verifiedFindings = <<>>
    /\ result = NoResult /\ raised = NoError /\ checksAllFailed = TRUE
    /\ chat = NoChat /\ orch = SameState /\ hook = NoHook
    /\ nextId = 1
    /\ memory = InitializeMemory(NoMemory) /\ memCall = NoMemCall
    /\ \E h \in Thresholds : \E artifacts \in ArtifactLists(Clock, h) :
         freshness = [now |-> Clock, threshold |-> h, artifacts |-> artifacts,
                      stale |-> <<>>, returned |-> FALSE]

NextFreshness == VerifyFreshness

SpecFreshness == InitFreshness /\ [][NextFreshness]_vars

\* ------------------------------------- runs where every call comes back
\* a search task is answered, answered after a round of tool calls, or fails;
\* the extractor and the fact-checker are answered; every call that is
\* awaited eventually returns, which is weak fairness of the steps of the run
LiveOutcomes == {"text", "tools", "error"}

NextLive ==
    \/ StartResearch
    \/ CallLLMAnswered
    \/ CallTools
    \/ PlanResearch
    \/ DecomposeTasksUpTo(MaxScenarioLines)
    \/ \E j \in 1..Len(tasks) : SearchLLMFrom(j, LiveOutcomes)
    \/ \E j \in 1..Len(tasks) : SearchTools(j)
    \/ BatchJoin
    \/ SearchDone
    \/ AnalyzeStep
    \/ AnalyzeDone
    \/ VerifyStep
    \/ VerifyDone
    \/ SynthesizeFindings

SpecLive == Init /\ [][NextLive]_vars /\ WF_vars(NextLive)

\* ------------------------------------------- phases 4 and 5 on their own
\* state.citations as phase 2 leaves it: one citation per search finding
CitationsList(nf) ==
    [p \in 1..nf |-> [id |-> 300 + p, artifactId |-> p, source |-> "Research Task"]]

\* executeResearch at the start of phase 4: state.findings holds the findings
\* of up to 5 search tasks followed by the analysis artifacts of some of them
InitFactCheck ==
    /\ pc = "verify"
    /\ currentPhase = "synthesizing" /\ progressPercentage = 80
    /\ \E nf \in 0..TaskLimit : \E na \in 0..Min(nf, AnalyzeLimit) :
         /\ findings = FindingsList(nf, na)
         /\ citations = CitationsList(nf)
         /\ nextId = nf + na + 2
         /\ memory = UpdateShortTermMemory(InitializeMemory(NoMemory), <<FoundNote(nf)>>)
    /\ verifyInput = findings
    /\ call = LoopCall(VerifyLoop, 0, "fact_checker", nextId - 1)
    /\ tasks = <<>> /\ i = 0 /\ inflight = {} /\ batches = <<>>
    /\ batchResults = <<>> /\ searchResults = <<>>
    /\ k = 0 /\ analyzed = <<>>
    /\ verified = <<>> /\ verifiedFindings = <<>>
    /\ result = NoResult /\ raised = NoError /\ checksAllFailed = TRUE
    /\ chat = NoChat /\ orch = SameState /\ hook = NoHook
    /\ memCall = NoMemCall /\ freshness = NoFreshness

NextFactCheck ==
    \/ CallLLM
    \/ CallTools
    \/ VerifyStep
    \/ VerifyDone
    \/ SynthesizeFindings

SpecFactCheck == InitFactCheck /\ [][NextFactCheck]_vars

\* ------------------------------------------------------- the chat router
\* getDb() returned null: every query function throws
DatabaseNotAvailable == "Database not available"

\* db.delete(table).where(eq(table.id, id))
DeleteById_Keep(rows, id) == rows
DeleteById(rows, id) == {r \in rows : r.id # id}

\* getChatSessionById: select ... where id = sessionId limit 1; the caller
\* gets result[0], which is undefined when no row was selected
GetSession(sessionId) == {r \in chat.sessions : r.id = sessionId}
\* getMessagesBySessionId: select ... where messages.sessionId = sessionId
ListMessages(sessionId) == {m \in chat.messages : m.sessionId = sessionId}
\* getAnnotationsByMessageId: select ... where annotations.messageId = messageId
ListAnnotations(messageId) == {a \in chat.annotations : a.messageId = messageId}

RowsInserted == (chat.nextSession - 1) + (chat.nextMessage - 1) + (chat.nextAnnotation - 1)

ChatFrame ==
    UNCHANGED <<pc, currentPhase, progressPercentage, call, tasks, i, inflight, batches,
                batchResults, searchResults, findings, citations, k, analyzed,
                verifyInput, verified, verifiedFindings, result, raised,
                checksAllFailed, nextId, memory, memCall, freshness, orch, hook>>

\* a procedure of the router when the database is not available
ChatThrows == chat' = [chat EXCEPT !.error = DatabaseNotAvailable]

CreateSession ==
    /\ pc = "chat" /\ RowsInserted < MaxRows
    /\ IF chat.available
       THEN chat' = [chat EXCEPT !.sessions = @ \cup {[id |-> chat.nextSession]},
                                 !.nextSession = @ + 1, !.error = "none"]
       ELSE ChatThrows
    /\ ChatFrame

CreateMessage ==
    /\ pc = "chat" /\ RowsInserted < MaxRows
    /\ \E sessionId \in 1..MaxRows :
         IF chat.available
         THEN chat' = [chat EXCEPT
                         !.messages = @ \cup {[id |-> chat.nextMessage, sessionId |-> sessionId]},
                         !.nextMessage = @ + 1, !.error = "none"]
         ELSE ChatThrows
    /\ ChatFrame

CreateAnnotation ==
    /\ pc = "chat" /\ RowsInserted < MaxRows
    /\ \E messageId \in 1..MaxRows :
         IF chat.available
         THEN chat' = [chat EXCEPT
                         !.annotations = @ \cup {[id |-> chat.nextAnnotation, messageId |-> messageId]},
                         !.nextAnnotation = @ + 1, !.error = "none"]
         ELSE ChatThrows
    /\ ChatFrame

\* deleteSession removes the row of the session and nothing else: the
\* schema declares no foreign key
DeleteSession ==
    /\ pc = "chat"
    /\ \E sessionId \in 1..(chat.nextSession - 1) :
         IF chat.available
         THEN chat' = [chat EXCEPT !.sessions = DeleteById(@, sessionId),
                                   !.deleted.sessions = @ \cup {sessionId}, !.error = "none"]
         ELSE ChatThrows
    /\ ChatFrame

DeleteMessage ==
    /\ pc = "chat"
    /\ \E messageId \in 1..(chat.nextMessage - 1) :
         IF chat.available
         THEN chat' = [chat EXCEPT !.messages = DeleteById(@, messageId),
                                   !.deleted.messages = @ \cup {messageId}, !.error = "none"]
         ELSE ChatThrows
    /\ ChatFrame

DeleteAnnotation ==
    /\ pc = "chat"
    /\ \E annotationId \in 1..(chat.nextAnnotation - 1) :
         IF chat.available
         THEN chat' = [chat EXCEPT !.annotations = DeleteById(@, annotationId),
                                   !.deleted.annotations = @ \cup {annotationId}, !.error = "none"]
         ELSE ChatThrows
    /\ ChatFrame

\* the server with empty tables, with or without a database
InitChat ==
    /\ pc = "chat"
    /\ currentPhase = "planning" /\ progressPercentage = 0
    /\ call = NoTask
    /\ tasks = <<>> /\ i = 0 /\ inflight = {} /\ batches = <<>>
    /\ batchResults = <<>> /\ searchResults = <<>>
    /\ findings = <<>> /\ citations = <<>>
    /\ k = 0 /\ analyzed = <<>>
    /\ verifyInput = <<>> /\ verified = <<>> /\ verifiedFindings = <<>>
    /\ result = NoResult /\ raised = NoError /\ checksAllFailed = TRUE
    /\ nextId = 1
    /\ memory = NoMemory /\ memCall = NoMemCall /\ freshness = NoFreshness
    /\ orch = SameState /\ hook = NoHook
    /\ \E available \in BOOLEAN : chat = ChatTables(available)

NextChat ==
    \/ CreateSession
    \/ CreateMessage
    \/ CreateAnnotation
    \/ DeleteSession
    \/ DeleteMessage
    \/ DeleteAnnotation

SpecChat == InitChat /\ [][NextChat]_vars


\* ------------------------------------- the state shared with the orchestrator
\* The coordinator's state object is the variables currentPhase,
\* progressPercentage, findings and citations. orch tells what the
\* orchestrator's this.state is: that very object (same), or the object a
\* spread built, with its own scalar fields and, for each array, either the
\* coordinator's array (sameFindings, sameCitations) or one of its own.
StateFields == {"currentPhase", "progressPercentage", "findings", "citations"}

\* ResearchCoordinator.getState
CoordinatorGetState ==
    [currentPhase |-> currentPhase, progressPercentage |-> progressPercentage,
     findings |-> findings, citations |-> citations]

\* OrchestratorAgent.getState
OrchestratorGetState ==
    [currentPhase |-> IF orch.same THEN currentPhase ELSE orch.currentPhase,
     progressPercentage |-> IF orch.same THEN progressPercentage ELSE orch.progressPercentage,
     findings |-> IF orch.sameFindings THEN findings ELSE orch.findings,
     citations |-> IF orch.sameCitations THEN citations ELSE orch.citations]

\* updateState: this.state = { ...this.state, ...updates }, a new object that
\* takes each field from updates if it is there and from the old object if not
Spread(view, updates) ==
    [same |-> FALSE,
     currentPhase |-> IF "currentPhase" \in updates.keys
                      THEN updates.currentPhase ELSE view.currentPhase,
     progressPercentage |-> IF "progressPercentage" \in updates.keys
                            THEN updates.progressPercentage ELSE view.progressPercentage,
     sameFindings |-> orch.sameFindings /\ "findings" \notin updates.keys,
     findings |-> IF "findings" \in updates.keys THEN updates.findings ELSE view.findings,
     sameCitations |-> orch.sameCitations /\ "citations" \notin updates.keys,
     citations |-> IF "citations" \in updates.keys THEN updates.citations ELSE view.citations]

StateFrame ==
    UNCHANGED <<pc, chat, hook, memory, memCall, freshness, call, tasks, i, inflight,
                batches, batchResults, searchResults, k, analyzed, verifyInput,
                verified, verifiedFindings, result, raised, checksAllFailed, nextId>>

\* the phase and progress assignments of executeResearch, in their order
EnterPhase(phase) ==
    /\ pc = "state"
    /\ PhaseProgress(phase) > progressPercentage
    /\ \A other \in {"planning", "searching", "analyzing", "synthesizing", "finalizing"} :
          PhaseProgress(other) > progressPercentage => PhaseProgress(other) >= PhaseProgress(phase)
    /\ currentPhase' = phase /\ progressPercentage' = PhaseProgress(phase)
    /\ UNCHANGED <<orch, findings, citations>>
    /\ StateFrame

\* this.state.progressPercentage = 100
Finish ==
    /\ pc = "state" /\ progressPercentage = PhaseProgress("finalizing")
    /\ progressPercentage' = FinalProgress
    /\ UNCHANGED <<orch, currentPhase, findings, citations>>
    /\ StateFrame

\* this.state.findings.push(...): the array of the coordinator's object grows
PushFinding ==
    /\ pc = "state" /\ Len(findings) < MaxArtifacts
    /\ findings' = FindingsList(Len(findings) + 1, 0)
    /\ UNCHANGED <<orch, currentPhase, progressPercentage, citations>>
    /\ StateFrame

\* this.state.citations.push(...)
PushCitation ==
    /\ pc = "state" /\ Len(citations) < MaxArtifacts
    /\ citations' = CitationsList(Len(citations) + 1)
    /\ UNCHANGED <<orch, currentPhase, progressPercentage, findings>>
    /\ StateFrame

\* OrchestratorAgent.updateState(updates)
UpdateState(updates) ==
    /\ pc = "state"
    /\ orch' = Spread(OrchestratorGetState, updates)
    /\ UNCHANGED <<currentPhase, progressPercentage, findings, citations>>
    /\ StateFrame

\* the updates a caller passes: any of the fields, with a phase, a progress
\* and empty lists as values
Updates ==
    [keys : SUBSET StateFields, currentPhase : {"analyzing"},
     progressPercentage : {50}, findings : {<<>>}, citations : {<<>>}]

\* the state the constructor of ResearchCoordinator leaves
InitState ==
    /\ pc = "state"
    /\ currentPhase = "planning" /\ progressPercentage = 0
    /\ call = NoTask
    /\ tasks = <<>> /\ i = 0 /\ inflight = {} /\ batches = <<>>
    /\ batchResults = <<>> /\ searchResults = <<>>
    /\ findings = <<>> /\ citations = <<>>
    /\ k = 0 /\ analyzed = <<>>
    /\ verifyInput = <<>> /\ verified = <<>> /\ verifiedFindings = <<>>
    /\ result = NoResult /\ raised = NoError /\ checksAllFailed = TRUE
    /\ nextId = 1
    /\ chat = NoChat /\ orch = SameState /\ hook = NoHook
    /\ memory = InitializeMemory(NoMemory) /\ memCall = NoMemCall /\ freshness = NoFreshness

NextState ==
    \/ \E phase \in {"planning", "searching", "analyzing", "synthesizing", "finalizing"} :
          EnterPhase(phase)
    \/ Finish
    \/ PushFinding
    \/ PushCitation
    \/ \E updates \in Updates : UpdateState(updates)

SpecState == InitState /\ [][NextState]_vars

\* ------------------------------------------------------- useDeepResearch
\* hook.calls holds, for each startResearch call made, where its mutateAsync
\* stands; hook.timers the calls whose setInterval has not been cleared
HookFrame ==
    UNCHANGED <<pc, chat, orch, memory, memCall, freshness, currentPhase,
                progressPercentage, call, tasks, i, inflight, batches, batchResults,
                searchResults, findings, citations, k, analyzed, verifyInput,
                verified, verifiedFindings, result, raised, checksAllFailed, nextId>>

\* the ResearchState of the hook
ResearchState(status, progress, res, error) ==
    [hook EXCEPT !.status = status, !.progress = progress, !.result = res, !.error = error]

\* the status a tick of the interval gives, from the progress before it
TickStatus(progress) ==
    IF progress > 60 THEN "synthesizing"
    ELSE IF progress > 30 THEN "analyzing" ELSE "searching"

\* startResearch up to the await of mutateAsync: the state is set, the
\* interval started and the mutation sent
StartResearchCall ==
    /\ pc = "hook" /\ Len(hook.calls) < MaxCalls
    /\ hook' = [ResearchState("searching", 10, "null", "null") EXCEPT
                  !.calls = Append(@, "pending"),
                  !.timers = @ \cup {Len(hook.calls) + 1}]
    /\ HookFrame

\* the interval of call c fires: at 90 or more it clears itself and keeps the
\* state, below it adds 5 and sets the status
Tick(c) ==
    /\ pc = "hook" /\ c \in hook.timers
    /\ hook' = IF hook.progress >= 90
               THEN [hook EXCEPT !.timers = @ \ {c}]
               ELSE [hook EXCEPT !.progress = @ + 5, !.status = TickStatus(hook.progress)]
    /\ HookFrame

\* mutateAsync of call c resolves: clearInterval, then the completed state
MutationResolves(c) ==
    /\ pc = "hook" /\ c \in 1..Len(hook.calls) /\ hook.calls[c] = "pending"
    /\ hook' = [ResearchState("completed", 100, "result", "null") EXCEPT
                  !.calls[c] = "resolved", !.timers = @ \ {c}]
    /\ HookFrame

\* mutateAsync of call c rejects: the catch block sets the failed state and
\* rethrows; progressInterval is not in its scope
MutationRejects(c) ==
    /\ pc = "hook" /\ c \in 1..Len(hook.calls) /\ hook.calls[c] = "pending"
    /\ hook' = [ResearchState("failed", 0, "null", "message") EXCEPT
                  !.calls[c] = "rejected"]
    /\ HookFrame

\* resetResearch
ResetResearch ==
    /\ pc = "hook"
    /\ hook' = ResearchState("idle", 0, "null", "null")
    /\ HookFrame

\* the hook as the first render leaves it
InitHook ==
    /\ pc = "hook"
    /\ currentPhase = "planning" /\ progressPercentage = 0
    /\ call = NoTask
    /\ tasks = <<>> /\ i = 0 /\ inflight = {} /\ batches = <<>>
    /\ batchResults = <<>> /\ searchResults = <<>>
    /\ findings = <<>> /\ citations = <<>>
    /\ k = 0 /\ analyzed = <<>>
    /\ verifyInput = <<>> /\ verified = <<>> /\ verifiedFindings = <<>>
    /\ result = NoResult /\ raised = NoError /\ checksAllFailed = TRUE
    /\ nextId = 1
    /\ chat = NoChat /\ orch = SameState /\ hook = NoHook
    /\ memory = NoMemory /\ memCall = NoMemCall /\ freshness = NoFreshness

NextHook ==
    \/ StartResearchCall
    \/ \E c \in 1..MaxCalls : Tick(c)
    \/ \E c \in 1..MaxCalls : MutationResolves(c)
    \/ \E c \in 1..MaxCalls : MutationRejects(c)
    \/ ResetResearch

SpecHook == InitHook /\ [][NextHook]_vars

\* ------------------------------------------------------------ properties
PhaseRank(phase) ==
    CASE phase = "planning" -> 1
      [] phase = "searching" -> 2
      [] phase = "analyzing" -> 3
      [] phase = "synthesizing" -> 4
      [] phase = "finalizing" -> 5
      [] OTHER -> 0

StatedProgress(phase) ==
    CASE phase = "planning" -> 10
      [] phase = "searching" -> 30
      [] phase = "analyzing" -> 60
      [] phase = "synthesizing" -> 80
      [] phase = "finalizing" -> 90
      [] OTHER -> 100

\* C1, as stated: a run that returns ends in phase done with progress 100.
C1_EndsInDone ==
    pc = "returned" => (currentPhase = "done" /\ progressPercentage = 100)

\* C1, amended: the phase goes planning -> searching -> analyzing ->
\* synthesizing -> finalizing one step at a time and never backward, the
\* progress never decreases, every phase carries its stated progress
\* (10, 30, 60, 80, 90), and a run that returns ends with progress 100 while
\* currentPhase is still finalizing: there is no phase done.
C1_PhaseOrder ==
    /\ [][/\ PhaseRank(currentPhase') \in
               {PhaseRank(currentPhase), PhaseRank(currentPhase) + 1}
          /\ progressPercentage' >= progressPercentage]_vars
    /\ [](pc \notin {"start", "returned"} =>
              progressPercentage = StatedProgress(currentPhase))
    /\ [](pc = "returned" => (currentPhase = "finalizing" /\ progressPercentage = 100))

C1_Witness ==
    /\ pc = "returned" /\ result.returned
    /\ currentPhase = "finalizing" /\ progressPercentage = 100
    /\ Len(result.findings) > 0

\* C2: when the synthesis call has failed, executeResearch returns no
\* ResearchResult.
C2_SynthesisFailureFatal ==
    (currentPhase = "finalizing" /\ call.status = "failed") => ~result.returned

\* v is the verified artifact verifyFindings builds from f
DerivedFrom(v, f) ==
    /\ v.type = "verified" /\ v.id # f.id
    /\ v.taskId = f.taskId /\ v.content = f.content
    /\ v.sourceArtifactId = f.sourceArtifactId

\* C3: for every one of the first 5 findings given to verifyFindings the
\* output holds the finding itself or a verified artifact derived from it.
C3_VerifiedOrOriginal ==
    pc = "verifyReturned" =>
        \A p \in 1..Len(VerifyLoop) : \E q \in 1..Len(verifiedFindings) :
            \/ verifiedFindings[q] = VerifyLoop[p]
            \/ DerivedFrom(verifiedFindings[q], VerifyLoop[p])

InFlight == {j \in 1..Len(tasks) : tasks[j].status \in {"thinking", "executing"}}

C5_BatchesSequential ==
    \A j1, j2 \in 1..Len(tasks) :
        ((j1 - 1) \div 3 < (j2 - 1) \div 3 /\ tasks[j2].status # "idle")
            => Terminal(tasks[j1])

C5_Witness ==
    /\ Len(tasks) >= 5
    /\ tasks[1].status = "completed" /\ tasks[2].status = "failed"
    /\ tasks[4].status = "executing" /\ tasks[5].status = "thinking"

FindingsOf(j) ==
    {q \in 1..Len(searchResults) : searchResults[q].taskId = tasks[j].id}
FindingIds(j) == {searchResults[q].id : q \in FindingsOf(j)}
CitationsOf(j) ==
    {c \in 1..Len(citations) : citations[c].artifactId \in FindingIds(j)}
AllFindingIds == {searchResults[q].id : q \in 1..Len(searchResults)}

\* C6: when executeTasks returns, nothing was raised, every task of every
\* batch has been executed, a failed task has no finding and no citation, and
\* every task that produced a result has its finding and its citation.
C6_FailureIsolated ==
    pc = "tasksReturned" =>
        /\ raised = NoError
        /\ \A j \in 1..Len(tasks) :
              /\ Terminal(tasks[j])
              /\ tasks[j].status = "failed" =>
                    (FindingsOf(j) = {} /\ CitationsOf(j) = {})
              /\ Truthy(tasks[j].result) =>
                    (Cardinality(FindingsOf(j)) = 1 /\ Cardinality(CitationsOf(j)) = 1)
        /\ \A c \in 1..Len(citations) : citations[c].artifactId \in AllFindingIds

C6_Witness ==
    /\ pc = "tasksReturned" /\ Len(tasks) >= 4
    /\ tasks[1].status = "failed"
    /\ Cardinality(FindingsOf(2)) = 1 /\ Cardinality(FindingsOf(4)) = 1

\* C7: every search task that ended completed has exactly one finding and one
\* citation of that finding, so findings, citations and completed tasks are
\* equally many.
C7_CompletedYieldsFinding ==
    pc = "tasksReturned" =>
        /\ \A j \in 1..Len(tasks) : tasks[j].status = "completed" =>
              (Cardinality(FindingsOf(j)) = 1 /\ Cardinality(CitationsOf(j)) = 1)
        /\ Len(searchResults) = Len(citations)
        /\ Len(searchResults) =
              Cardinality({j \in 1..Len(tasks) : tasks[j].status = "completed"})

NoWorkerRan ==
    /\ batches = <<>> /\ \A j \in 1..Len(tasks) : tasks[j].status = "idle"
    /\ call.agentRole = "orchestrator"
    /\ findings = <<>> /\ citations = <<>> /\ analyzed = <<>> /\ verified = <<>>

\* C8: a failed planning or decomposition call makes executeResearch raise;
\* after the raise there is no result, no search, extraction or fact-check
\* task was executed, and currentPhase is still planning.
C8_PlanningFailureAborts ==
    /\ [][(pc \in {"plan", "decompose"} /\ call.status = "failed") =>
              (pc' = "raised" /\ raised' # NoError)]_vars
    /\ [](pc = "raised" =>
              (currentPhase = "planning" /\ ~result.returned /\ NoWorkerRan))

C8_Witness ==
    /\ pc = "raised" /\ call.status = "failed" /\ call.id > 1
    /\ currentPhase = "planning"

\* C9: when the run ends after a planning or synthesis call failed with
\* message m, the error executeResearch raised carries m.
C9_ErrorCarriesMessage ==
    (pc \in {"raised", "returned"} /\ call.status = "failed") => raised = call.error

\* C10: when every fact-check failed, verifyFindings returns its input list:
\* the same artifacts in the same order.
C10_AllFailedFallback ==
    (pc = "verifyReturned" /\ checksAllFailed) => verifiedFindings = verifyInput

C10_Witness ==
    /\ pc = "verifyReturned" /\ checksAllFailed
    /\ Len(verifyInput) > 5 /\ verifiedFindings = verifyInput

\* the identifiers of the artifacts of a list
IdsOf(list) == {list[p].id : p \in 1..Len(list)}

\* C11: a fact-check of finding f that returns a result adds one artifact to
\* verified: its id is fresh, its type is verified, its content and metadata
\* are those of f and it carries the verification payload; f and the list of
\* accumulated findings that verifyFindings was given stay as they were
C11_VerifiedIsNewArtifact ==
    /\ [][(pc = "verify" /\ k < Len(VerifyLoop) /\ k' = k + 1
            /\ call.status = "completed" /\ Truthy(call.result))
           => /\ Len(verified') = Len(verified) + 1
              /\ SubSeq(verified', 1, Len(verified)) = verified
              /\ LET f == VerifyLoop[k + 1]
                     v == verified'[Len(verified')]
                 IN  /\ DerivedFrom(v, f)
                     /\ v.verificationResult = call.result
                     /\ v.id \notin IdsOf(verifyInput) \cup IdsOf(verified)
                     /\ f.type # "verified" /\ f.verificationResult = Undefined
              /\ verifyInput' = verifyInput /\ findings' = findings]_vars
    /\ [](pc \in {"verify", "verifyReturned"} => findings = verifyInput)

C11_Witness ==
    /\ pc = "verifyReturned" /\ Len(verifyInput) >= 2 /\ Len(verified) = 1
    /\ DerivedFrom(verified[1], verifyInput[2])
    /\ verified[1].verificationResult = ToolResults
    /\ findings = verifyInput /\ verifyInput[2].type = "finding"

\* no search task produced anything: there was none, or every one ended failed
NoSearchSucceeded == \A j \in 1..Len(tasks) : tasks[j].status = "failed"

\* C12: when decomposition yields no task, or every search task fails, the
\* run goes on without raising: the analyzing and fact-check passes work on
\* the empty list and produce nothing, and executeResearch returns a result
\* with no findings and no citations
C12_DegradedRunReturns ==
    /\ (pc \in {"analyze", "verify", "synthesize", "returned"} /\ NoSearchSucceeded)
          => /\ raised = NoError
             /\ findings = <<>> /\ citations = <<>>
             /\ analyzed = <<>> /\ verified = <<>> /\ verifiedFindings = <<>>
             /\ pc \in {"analyze", "verify"} => call = NoTask
    /\ (pc = "returned" /\ NoSearchSucceeded)
          => /\ result.returned
             /\ result.findings = <<>> /\ result.citations = <<>>
    /\ pc = "raised" => (currentPhase = "planning" /\ tasks = <<>>)

C12_Witness ==
    /\ pc = "returned" /\ Len(tasks) >= 1 /\ NoSearchSucceeded
    /\ call.status = "completed" /\ Truthy(call.result)
    /\ result.returned /\ result.findings = <<>> /\ result.citations = <<>>
    /\ raised = NoError /\ progressPercentage = 100

\* the artifacts of a list that have the given type
OfType(list, type) == {p \in 1..Len(list) : list[p].type = type}

\* C13: a run with 5 tasks in which every search, extraction and fact-check
\* call is answered returns 5 citations and exactly 5 findings, all of type
\* verified, after an analyzing phase that produced at most 5 analysis
\* artifacts, and ends with progress 100
C13_FiveTasksAllSucceed ==
    (pc = "returned" /\ Len(tasks) = 5)
       => /\ Len(result.citations) = 5
          /\ Cardinality(OfType(findings, "finding")) = 5
          /\ Cardinality(OfType(findings, "analysis")) <= 5
          /\ Len(result.findings) = 5
          /\ OfType(result.findings, "verified") = 1..5
          /\ progressPercentage = 100

C13_Witness ==
    /\ pc = "returned" /\ Len(tasks) = 5
    /\ \A j \in 1..5 : tasks[j].status = "completed"
    /\ Len(result.citations) = 5 /\ Len(result.findings) = 5
    /\ Len(analyzed) = 5 /\ Len(verified) = 5
    /\ progressPercentage = 100

\* C14: the estimated size of the short-term buffer never exceeds 4000 and
\* that of the long-term buffer never exceeds 16000, whatever was appended
C14_BuffersWithinBudget ==
    memory.exists
       => /\ EstimateTokens(memory.shortTermMemory) <= 4000
          /\ EstimateTokens(memory.longTermMemory) <= 16000

\* the last call was an update of a buffer of an existing record
Updated == memCall.op \in {"updateShortTermMemory", "updateLongTermMemory"} /\ memCall.before.exists
\* the buffer the last update was about, before and after, and its budget
BufferBefore ==
    IF memCall.op = "updateShortTermMemory"
    THEN memCall.before.shortTermMemory ELSE memCall.before.longTermMemory
BufferAfter ==
    IF memCall.op = "updateShortTermMemory"
    THEN memory.shortTermMemory ELSE memory.longTermMemory
Budget == IF memCall.op = "updateShortTermMemory" THEN 4000 ELSE 16000
\* the old content followed by the appended text
Combined == BufferBefore \o memCall.text

\* the estimated size of one line, and the sum of these over lines lo..hi
LineTokens(line) == (line.len + 3) \div 4
RECURSIVE TokensOf(_, _, _)
TokensOf(lines, lo, hi) ==
    IF lo > hi THEN 0
    ELSE IF lo = hi THEN LineTokens(lines[lo])
    ELSE TokensOf(lines, lo, (lo + hi) \div 2) + TokensOf(lines, (lo + hi) \div 2 + 1, hi)

\* the lines of the compressed buffer that come before its closing empty
\* line and its marker
HasMarker(lines) == Len(lines) >= 2 /\ lines[Len(lines)] = Marker
KeptLines(lines) == IF HasMarker(lines) THEN Len(lines) - 2 ELSE Len(lines) - 1

\* C15: when an update compresses, the new buffer starts with the longest
\* prefix of the lines whose sizes sum to at most the budget, each line as it
\* was and in order; the first line that would exceed the budget and all
\* lines after it are left out, and nothing but the closing empty line and
\* the marker follows the prefix
C15_LongestPrefixKept ==
    (Updated /\ EstimateTokens(Combined) > Budget)
       => LET m == KeptLines(BufferAfter)
          IN  /\ m \in 0..Len(Combined)
              /\ SubSeq(BufferAfter, 1, m) = SubSeq(Combined, 1, m)
              /\ TokensOf(Combined, 1, m) <= Budget
              /\ m < Len(Combined) => TokensOf(Combined, 1, m + 1) > Budget
              /\ BufferAfter[m + 1] = EmptyLine
              /\ HasMarker(BufferAfter) <=> m < Len(Combined)

C15_Witness ==
    /\ Updated /\ EstimateTokens(Combined) > Budget
    /\ HasMarker(BufferAfter)
    /\ LET m == KeptLines(BufferAfter)
       IN  /\ m >= 2 /\ m + 2 <= Len(Combined)
           /\ Combined[m + 2].len > 0
           /\ TokensOf(Combined, 1, m) + LineTokens(Combined[m + 2]) <= Budget

\* C16: an update whose combined content is estimated at no more than the
\* budget does not compress: the new buffer is the old content, unchanged,
\* followed by the appended text, and no marker is added
C16_UnderBudgetAppends ==
    (Updated /\ EstimateTokens(Combined) <= Budget)
       => /\ BufferAfter = Combined
          /\ SubSeq(BufferAfter, 1, Len(BufferBefore)) = BufferBefore
          /\ \A p \in Len(BufferBefore) + 1 .. Len(BufferAfter) : BufferAfter[p] # Marker

C16_Witness ==
    /\ Updated /\ EstimateTokens(Combined) = Budget
    /\ Len(BufferBefore) >= 2 /\ BufferAfter = Combined

\* C17: initializing a session that already has a record fails with
\* AlreadyInitialized and leaves the record as it was
C17_InitializeTwiceFails ==
    (memCall.op = "initializeMemory" /\ memCall.before.exists)
       => (memory = memCall.before /\ raised = "AlreadyInitialized")

\* the positions of the input of verifyFreshness whose artifact was returned
Flagged == {p \in 1..Len(freshness.artifacts) :
               \E q \in 1..Len(freshness.stale) : freshness.stale[q] = freshness.artifacts[p]}
\* now - retrievedAt of the artifact at position p, in milliseconds
Age(p) == freshness.now - freshness.artifacts[p].retrievedAt

\* C18: the comparison with the threshold is strict: an artifact retrieved
\* exactly threshold hours before now is not flagged, one retrieved a
\* millisecond earlier is
C18_StrictThreshold ==
    freshness.returned
       => \A p \in 1..Len(freshness.artifacts) :
            /\ Age(p) = freshness.threshold * 3600000 => p \notin Flagged
            /\ Age(p) = freshness.threshold * 3600000 + 1 => p \in Flagged

C18_Witness ==
    /\ freshness.returned /\ freshness.threshold = 24
    /\ Len(freshness.artifacts) = 2
    /\ Age(1) = 24 * 3600000 /\ Age(2) = 24 * 3600000 + 1
    /\ freshness.stale = <<freshness.artifacts[2]>>

\* C19: verifyFreshness returns, in input order, exactly the artifacts whose
\* age now - retrievedAt exceeds the threshold, so an artifact retrieved
\* after now is never returned
C19_OnlyOlderFlagged ==
    freshness.returned
       => /\ freshness.stale
               = SelectSeq(freshness.artifacts,
                           LAMBDA a : freshness.now - a.retrievedAt > freshness.threshold * 3600000)
          /\ \A p \in Flagged : Age(p) >= 0

\* C20: whatever the model answers, execute returns its task in a terminal
\* status: completed with a result that is populated, or failed with an error
\* that is populated; an answer with no tool call and no content ends failed
C20_TerminalIsPopulated ==
    Terminal(call)
       => \/ call.status = "completed" /\ Truthy(call.result)
          \/ call.status = "failed" /\ call.error # Undefined /\ call.result = Undefined

RowIds(rows) == {r.id : r \in rows}

\* C22: once a session, a message or an annotation has been deleted, no read
\* returns it any more, and a delete takes nothing else away: the rows of the
\* table with another id and the rows of the other tables stay returned
C22_DeletedStaysGone ==
    /\ [](/\ \A id \in chat.deleted.sessions : GetSession(id) = {}
          /\ \A id \in chat.deleted.messages :
                \A m \in chat.messages : id \notin RowIds(ListMessages(m.sessionId))
          /\ \A id \in chat.deleted.annotations :
                \A a \in chat.annotations : id \notin RowIds(ListAnnotations(a.messageId)))
    /\ [][/\ chat'.deleted.sessions # chat.deleted.sessions
             => /\ {r \in chat.sessions : r.id \notin chat'.deleted.sessions} \subseteq chat'.sessions
                /\ chat'.messages = chat.messages /\ chat'.annotations = chat.annotations
          /\ chat'.deleted.messages # chat.deleted.messages
             => /\ {m \in chat.messages : m.id \notin chat'.deleted.messages} \subseteq chat'.messages
                /\ chat'.sessions = chat.sessions /\ chat'.annotations = chat.annotations
          /\ chat'.deleted.annotations # chat.deleted.annotations
             => /\ {a \in chat.annotations : a.id \notin chat'.deleted.annotations}
                      \subseteq chat'.annotations
                /\ chat'.sessions = chat.sessions /\ chat'.messages = chat.messages]_vars

C22_Witness ==
    /\ chat.deleted.sessions = {1} /\ GetSession(1) = {}
    /\ GetSession(2) = {[id |-> 2]}
    /\ ListMessages(1) = {[id |-> 1, sessionId |-> 1]}

\* C23: an update of the short-term or long-term memory of a session without
\* a record reports MemoryNotInitialized, and creates no record
C23_UpdateWithoutRecordFails ==
    (memCall.op \in {"updateShortTermMemory", "updateLongTermMemory"} /\ ~memCall.before.exists)
       => (raised = "MemoryNotInitialized" /\ ~memory.exists)

\* the position in the search findings of the finding an analysis artifact
\* names as its source, 0 when it names none of them
SourcePosition(a) ==
    IF \E p \in 1..Len(searchResults) : searchResults[p].id = a.sourceArtifactId
    THEN CHOOSE p \in 1..Len(searchResults) : searchResults[p].id = a.sourceArtifactId
    ELSE 0

\* C24: analyzeFindings takes at most the first 5 search findings, one after
\* the other in their order: an extraction starts only when the one before it
\* has ended; an extraction that returns a result adds one analysis artifact
\* naming its finding as source, one that fails adds nothing, and the phase
\* never raises
C24_AnalyzeSequential ==
    /\ [](pc \in {"analyze", "analyzeReturned"}
            => /\ k <= 5 /\ k <= Len(searchResults) /\ Len(analyzed) <= k
               /\ raised = NoError
               /\ \A q \in 1..Len(analyzed) :
                     /\ analyzed[q].type = "analysis"
                     /\ SourcePosition(analyzed[q]) \in 1..k
                     /\ q > 1 => SourcePosition(analyzed[q - 1]) < SourcePosition(analyzed[q]))
    /\ [][(pc = "analyze" /\ call'.id # call.id)
            => /\ Terminal(call) /\ k' = k + 1
               /\ call' # NoTask => (call'.status = "thinking" /\ call'.agentRole = "extractor")
               /\ IF call.status = "completed" /\ Truthy(call.result)
                  THEN /\ Len(analyzed') = Len(analyzed) + 1
                       /\ SubSeq(analyzed', 1, Len(analyzed)) = analyzed
                       /\ analyzed'[Len(analyzed')].sourceArtifactId = searchResults[k + 1].id
                       /\ analyzed'[Len(analyzed')].id \notin IdsOf(searchResults) \cup IdsOf(analyzed)
                  ELSE analyzed' = analyzed]_vars

C24_Witness ==
    /\ pc = "analyzeReturned" /\ Len(searchResults) = 5 /\ k = 5
    /\ Len(analyzed) = 3 /\ raised = NoError
    /\ SourcePosition(analyzed[1]) = 1
    /\ SourcePosition(analyzed[2]) = 3
    /\ SourcePosition(analyzed[3]) = 5

\* the search tasks that have ended completed
CompletedTasks == {j \in 1..Len(tasks) : tasks[j].status = "completed"}

C27_CitationsResolve ==
    pc = "returned" =>
        \A c \in 1..Len(result.citations) :
            \E f \in 1..Len(result.findings) :
                result.findings[f].id = result.citations[c].artifactId

PastThe(list, n) == {p \in 1..Len(list) : p > n}

\* C29: when at least one fact-check yielded a result, the findings returned
\* are at most 5, each derived from one of the first 5 accumulated findings;
\* the accumulated findings past the fifth are neither in the result nor in
\* the long-term memory, which holds one line per returned finding
C29_OnlyFirstFiveReturned ==
    (pc = "returned" /\ verified # <<>>)
       => /\ Len(result.findings) <= 5
          /\ \A v \in 1..Len(result.findings) :
                \E p \in 1..Min(5, Len(findings)) :
                    DerivedFrom(result.findings[v], findings[p])
          /\ \A p \in PastThe(findings, 5) : \A v \in 1..Len(result.findings) :
                /\ result.findings[v].id # findings[p].id
                /\ result.findings[v].taskId # findings[p].taskId
          /\ memory.longTermMemory = EmptyString \o FindingsSummary(result.findings)
          /\ \A l \in 2..Len(memory.longTermMemory) :
                memory.longTermMemory[l].text = "[verified] text..."

C29_Witness ==
    /\ pc = "returned" /\ Len(findings) = 10
    /\ PastThe(findings, 5) = OfType(findings, "analysis")
    /\ Len(result.findings) = 2
    /\ DerivedFrom(result.findings[1], findings[2])
    /\ DerivedFrom(result.findings[2], findings[5])
    /\ Len(memory.longTermMemory) = 3

\* C26: the coordinator and the orchestrator observe the same state: after
\* any sequence of coordinator mutations and calls of updateState, the two
\* getState return equal states
C26_SameStateObserved ==
    pc = "state" => OrchestratorGetState = CoordinatorGetState

\* what a component reads from the hook
ShownState == [status |-> hook.status, progress |-> hook.progress,
               result |-> hook.result, error |-> hook.error]

\* C30: once a startResearch call has failed, the state shown stays the
\* failed one until startResearch is called again or resetResearch is
\* called, and no interval is running whose call has ended
C30_FailedStateStays ==
    /\ [][(hook.status = "failed" /\ ShownState' # ShownState)
            => \/ Len(hook'.calls) > Len(hook.calls)
               \/ hook'.status = "idle"]_vars
    /\ [](\A c \in hook.timers : hook.calls[c] = "pending")

====
